---- MODULE Spec2Model ----
(***************************************************************************)
(* Model of maze.js: a rectangular grid of MazeCell objects, reset() that  *)
(* rebuilds the grid, and the recursive generate(coord) that carves a maze *)
(* by randomized depth-first search.  The recursion of generate is         *)
(* represented by an explicit sequence of activation frames; the JavaScript*)
(* implicit global `next` is a variable of its own.                        *)
(***************************************************************************)
EXTENDS Integers, Sequences, FiniteSets, TLC

VARIABLES width, height, cells, stack, next, thrown, op, before, calls

vars == <<width, height, cells, stack, next, thrown, op, before, calls>>

(* ------------------------------ bounds --------------------------------- *)
\* Largest width and height passed to the constructor.
MaxDim == 3
\* Largest number of cells (width * height) of a constructed maze.
MaxCells == 9
\* Largest number of cells of a maze whose walls are broken by direct calls
\* of breakCellWalls.
MaxBreakCells == 6

(* ----------------------------- constants ------------------------------- *)
WALL_TOP == 8
WALL_RIGHT == 4
WALL_BOTTOM == 2
WALL_LEFT == 1

\* The JavaScript value `undefined` of the global `next` before its first
\* assignment.
Undefined == "undefined"

\* this.cells before the first reset(): it has no rows, so that indexing it
\* and then dereferencing the result throws.
NoCells == <<>>

\* The exception a property access on `undefined` raises.
TypeError == "TypeError"
NoError == "none"

(* ------------------------------ helpers -------------------------------- *)
Coord(x, y) == [x |-> x, y |-> y]

\* a & ~m on non-negative integers, bit by bit.
RECURSIVE AndNot(_, _)
AndNot(a, m) ==
    IF a = 0 THEN 0
    ELSE (IF a % 2 = 1 /\ m % 2 = 0 THEN 1 ELSE 0) + 2 * AndNot(a \div 2, m \div 2)

\* a | b on non-negative integers, bit by bit.
RECURSIVE BitOr(_, _)
BitOr(a, b) ==
    IF a = 0 /\ b = 0 THEN 0
    ELSE (IF a % 2 = 1 \/ b % 2 = 1 THEN 1 ELSE 0) + 2 * BitOr(a \div 2, b \div 2)

\* wall >> 2 and wall << 2.
ShiftRight2(w) == w \div 4
ShiftLeft2(w) == w * 4

(* ------------------------------ MazeCell ------------------------------- *)
\* new MazeCell(x, y, walls)
MazeCell(x, y, walls) ==
    [x |-> x, y |-> y, walls |-> walls, adjacentCells |-> <<>>, visited |-> FALSE]

\* Mutant of AdjacentCells: the test of the right neighbour is off by one
\* (x + 1 < width - 1).
AdjacentCells_rightOffByOne(x, y, w, h) ==
    LET a1 == IF x - 1 >= 0 THEN <<Coord(x - 1, y)>> ELSE <<>>
        a2 == IF x + 1 < w - 1 THEN Append(a1, Coord(x + 1, y)) ELSE a1
        a3 == IF y - 1 >= 0 THEN Append(a2, Coord(x, y - 1)) ELSE a2
        a4 == IF y + 1 < h THEN Append(a3, Coord(x, y + 1)) ELSE a3
    IN  a4

\* Mutant of AdjacentCells: the vertical neighbours are pushed before the
\* horizontal ones.
AdjacentCells_verticalFirst(x, y, w, h) ==
    LET a1 == IF y - 1 >= 0 THEN <<Coord(x, y - 1)>> ELSE <<>>
        a2 == IF y + 1 < h THEN Append(a1, Coord(x, y + 1)) ELSE a1
        a3 == IF x - 1 >= 0 THEN Append(a2, Coord(x - 1, y)) ELSE a2
        a4 == IF x + 1 < w THEN Append(a3, Coord(x + 1, y)) ELSE a3
    IN  a4

\* The adjacency list reset() pushes onto a new cell: left, right, top, bottom.
AdjacentCells(x, y, w, h) ==
    LET a1 == IF x - 1 >= 0 THEN <<Coord(x - 1, y)>> ELSE <<>>
        a2 == IF x + 1 < w THEN Append(a1, Coord(x + 1, y)) ELSE a1
        a3 == IF y - 1 >= 0 THEN Append(a2, Coord(x, y - 1)) ELSE a2
        a4 == IF y + 1 < h THEN Append(a3, Coord(x, y + 1)) ELSE a3
    IN  a4

\* Mutant of ResetCells: the two loops are exchanged, width rows of height
\* cells are built.
ResetCells_transposed(w, h) ==
    [y \in 0 .. w - 1 |->
        [x \in 0 .. h - 1 |->
            [MazeCell(x, y, 15) EXCEPT !.adjacentCells = AdjacentCells(x, y, h, w)]]]

\* Mutant of ResetCells: the grid is built on the first call only, a later
\* reset() keeps the cells it finds.
ResetCells_once(w, h) ==
    IF cells # NoCells THEN cells
    ELSE [y \in 0 .. h - 1 |->
            [x \in 0 .. w - 1 |->
                [MazeCell(x, y, 15) EXCEPT !.adjacentCells = AdjacentCells(x, y, w, h)]]]

\* The grid reset() builds: height rows of width cells, all four walls set.
ResetCells(w, h) ==
    [y \in 0 .. h - 1 |->
        [x \in 0 .. w - 1 |->
            [MazeCell(x, y, BitOr(BitOr(WALL_TOP, WALL_RIGHT), BitOr(WALL_BOTTOM, WALL_LEFT)))
                EXCEPT !.adjacentCells = AdjacentCells(x, y, w, h)]]]

\* Mutant of UnvisitedFrom: the negation of the test is lost, the visited
\* cells are collected.
RECURSIVE UnvisitedFrom_negated(_, _, _)
UnvisitedFrom_negated(adj, i, cs) ==
    IF i > Len(adj) THEN <<>>
    ELSE LET coord == adj[i]
             cell == cs[coord.y][coord.x]
         IN  (IF cell.visited THEN <<Coord(cell.x, cell.y)>> ELSE <<>>)
                \o UnvisitedFrom_negated(adj, i + 1, cs)

\* cell.getUnvisitedAdjacents(maze): the coordinates (taken from the referenced
\* cell) of the adjacent cells that are not visited, in adjacency order.
RECURSIVE UnvisitedFrom(_, _, _)
UnvisitedFrom(adj, i, cs) ==
    IF i > Len(adj) THEN <<>>
    ELSE LET coord == adj[i]
             cell == cs[coord.y][coord.x]
         IN  (IF ~cell.visited THEN <<Coord(cell.x, cell.y)>> ELSE <<>>)
                \o UnvisitedFrom(adj, i + 1, cs)

\* Mutant of getUnvisitedAdjacents: the visited flag is not tested, every
\* adjacent cell is returned.
getUnvisitedAdjacents_all(c, cs) ==
    LET adj == cs[c.y][c.x].adjacentCells
    IN  [i \in 1 .. Len(adj) |-> Coord(cs[adj[i].y][adj[i].x].x, cs[adj[i].y][adj[i].x].y)]

\* Mutant of getUnvisitedAdjacents: the loop stops one element early
\* (i < length - 1).
getUnvisitedAdjacents_skipLast(c, cs) ==
    LET adj == cs[c.y][c.x].adjacentCells
    IN  UnvisitedFrom(SubSeq(adj, 1, Len(adj) - 1), 1, cs)

getUnvisitedAdjacents(c, cs) == UnvisitedFrom(cs[c.y][c.x].adjacentCells, 1, cs)

\* Mutant of breakCellWalls: the same bit is cleared on cellB, the wall is
\* not turned to its opposite.
breakCellWalls_sameWall(cs, a, b, wall) ==
    LET cs1 == [cs EXCEPT ![a.y][a.x].walls = AndNot(@, wall)]
    IN  [cs1 EXCEPT ![b.y][b.x].walls = AndNot(@, wall)]

\* Mutant of breakCellWalls: the wall of cellB is left standing.
breakCellWalls_oneSided(cs, a, b, wall) ==
    [cs EXCEPT ![a.y][a.x].walls = AndNot(@, wall)]

\* breakCellWalls(cellA, cellB, wall); the cells are named by their position.
breakCellWalls(cs, a, b, wall) ==
    LET cs1 == [cs EXCEPT ![a.y][a.x].walls = AndNot(@, wall)]
        wall2 == IF wall = WALL_TOP \/ wall = WALL_RIGHT
                 THEN ShiftRight2(wall) ELSE ShiftLeft2(wall)
    IN  [cs1 EXCEPT ![b.y][b.x].walls = AndNot(@, wall2)]

(* -------------------------------- Maze --------------------------------- *)
\* The sizes new Maze(width, height) is constructed with.
Dims == {d \in (1 .. MaxDim) \X (1 .. MaxDim) : d[1] * d[2] <= MaxCells}

\* new Maze(width, height): cells is not assigned by the constructor.
\* op, before and calls are history variables: the last call made from
\* outside, the grid at the moment of that call, and the breakCellWalls calls
\* of the latest loop iteration.
Init ==
    /\ \E d \in Dims : width = d[1] /\ height = d[2]
    /\ cells = NoCells
    /\ stack = <<>>
    /\ next = Undefined
    /\ thrown = NoError
    /\ op = [name |-> "new"]
    /\ before = NoCells
    /\ calls = <<>>

\* maze.reset(), called while no generate is running.
Reset ==
    /\ stack = <<>>
    /\ cells' = ResetCells(width, height)
    /\ thrown' = NoError
    /\ op' = [name |-> "reset"]
    /\ before' = cells
    /\ calls' = <<>>
    /\ UNCHANGED <<width, height, stack, next>>

\* Mutant of Lookup: an index outside the row or the grid is clamped to the
\* nearest valid one.
Lookup_clamp(cs, coord) ==
    LET Clamp(v, D) == IF v \in D THEN v
                       ELSE IF \A d \in D : v < d THEN 0 ELSE Cardinality(D) - 1
    IN  IF DOMAIN cs = {} THEN <<>>
        ELSE <<Coord(Clamp(coord.x, DOMAIN cs[0]), Clamp(coord.y, DOMAIN cs))>>

\* Mutant of Lookup: an index outside the row or the grid wraps around, as a
\* negative index does in other languages.
Lookup_wrap(cs, coord) ==
    IF DOMAIN cs = {} THEN <<>>
    ELSE <<Coord(coord.x % Cardinality(DOMAIN cs[0]), coord.y % Cardinality(DOMAIN cs))>>

\* this.cells[coord.y][coord.x]: the cell object found, named by its position
\* in the grid, as a one-element sequence; <<>> when the expression throws
\* (this.cells[coord.y] is undefined) or yields undefined.
Lookup(cs, coord) ==
    IF coord.y \notin DOMAIN cs THEN <<>>
    ELSE IF coord.x \notin DOMAIN cs[coord.y] THEN <<>>
    ELSE <<Coord(coord.x, coord.y)>>

\* Lines 184-185 throw a TypeError when the lookup finds no cell.
EntryThrows(cs, coord) == Lookup(cs, coord) = <<>>

\* Mutant of EnterCells: the visited flag is not set.
EnterCells_noMark(cs, coord) == cs

\* Line 185, current.visited = true.
EnterCells(cs, coord) ==
    LET current == Lookup(cs, coord)[1]
    IN  [cs EXCEPT ![current.y][current.x].visited = TRUE]

\* The activation after lines 184-186: its parameter, its `current`, its
\* `adjacents`, and where it stands (at the loop test).
EnterFrame(cs, coord) ==
    LET current == Lookup(cs, coord)[1]
    IN  [coord |-> coord,
         current |-> current,
         adjacents |-> getUnvisitedAdjacents(current, EnterCells(cs, coord)),
         pc |-> "while"]

\* The coordinates a caller may pass as start: the grid and one step outside.
StartCoords == {Coord(x, y) : x \in -1 .. width, y \in -1 .. height}

\* maze.generate(coord) called from outside on the grid cs, up to its first
\* loop test.
GenerateOn(cs, coord) ==
    /\ stack = <<>>
    /\ op' = [name |-> "generate", coord |-> coord]
    /\ before' = cells
    /\ calls' = <<>>
    /\ IF EntryThrows(cs, coord)
       THEN /\ thrown' = TypeError
            /\ cells' = cs
            /\ stack' = <<>>
       ELSE /\ thrown' = NoError
            /\ cells' = EnterCells(cs, coord)
            /\ stack' = <<EnterFrame(cs, coord)>>
    /\ UNCHANGED <<width, height, next>>

\* Mutant of Generate: generate starts from a rebuilt grid whenever there is
\* one.
Generate_resetting(coord) ==
    GenerateOn(IF cells = NoCells THEN cells ELSE ResetCells(width, height), coord)

Generate(coord) == GenerateOn(cells, coord)

Top == stack[Len(stack)]
SetTop(f) == [stack EXCEPT ![Len(stack)] = f]

\* Mutant of WallsToBreak: the comparisons of the x coordinates are exchanged.
WallsToBreak_swapped(coord, n) ==
    (IF n.x < coord.x THEN <<WALL_RIGHT>>
     ELSE IF n.x > coord.x THEN <<WALL_LEFT>>
     ELSE <<>>)
    \o
    (IF n.y > coord.y THEN <<WALL_BOTTOM>>
     ELSE IF n.y < coord.y THEN <<WALL_TOP>>
     ELSE <<>>)

\* Mutant of WallsToBreak: the second chain ends in a plain else, so that a
\* horizontal move breaks the top wall as well.
WallsToBreak_plainElse(coord, n) ==
    (IF n.x > coord.x THEN <<WALL_RIGHT>>
     ELSE IF n.x < coord.x THEN <<WALL_LEFT>>
     ELSE <<>>)
    \o
    (IF n.y > coord.y THEN <<WALL_BOTTOM>> ELSE <<WALL_TOP>>)

\* The breakCellWalls calls of lines 195-209 for the parameter coord and the
\* chosen n: the walls passed, in call order.
WallsToBreak(coord, n) ==
    (IF n.x > coord.x THEN <<WALL_RIGHT>>
     ELSE IF n.x < coord.x THEN <<WALL_LEFT>>
     ELSE <<>>)
    \o
    (IF n.y > coord.y THEN <<WALL_BOTTOM>>
     ELSE IF n.y < coord.y THEN <<WALL_TOP>>
     ELSE <<>>)

\* The grid after breakCellWalls(current, nextNode, w) for each w of ws.
RECURSIVE BreakAll(_, _, _, _)
BreakAll(cs, current, nextNode, ws) ==
    IF ws = <<>> THEN cs
    ELSE BreakAll(breakCellWalls(cs, current, nextNode, Head(ws)), current, nextNode, Tail(ws))

\* One loop iteration up to the recursive call: lines 188-209, with
\* Math.floor(Math.random() * adjacents.length) = i.
Choose(i) ==
    /\ stack # <<>>
    /\ Top.pc = "while"
    /\ Len(Top.adjacents) > 0
    /\ i \in 0 .. Len(Top.adjacents) - 1
    /\ LET n == Top.adjacents[i + 1]
           nextNode == Lookup(cells, n)[1]
           ws == WallsToBreak(Top.coord, n)
       IN  /\ next' = n
           /\ cells' = BreakAll(cells, Top.current, nextNode, ws)
           /\ calls' = [k \in 1 .. Len(ws) |->
                           [cellA |-> Top.current, cellB |-> nextNode, wall |-> ws[k]]]
    /\ stack' = SetTop([Top EXCEPT !.pc = "call"])
    /\ UNCHANGED <<width, height, thrown, op, before>>

\* Line 211, this.generate(next): the nested activation runs lines 184-186
\* on the value of the global `next`; an exception would unwind every frame.
Recurse ==
    /\ stack # <<>>
    /\ Top.pc = "call"
    /\ IF EntryThrows(cells, next)
       THEN /\ thrown' = TypeError
            /\ stack' = <<>>
            /\ UNCHANGED cells
       ELSE /\ cells' = EnterCells(cells, next)
            /\ stack' = Append(SetTop([Top EXCEPT !.pc = "wait"]), EnterFrame(cells, next))
            /\ UNCHANGED thrown
    /\ UNCHANGED <<width, height, next, op, before, calls>>

\* Mutant of Return: the returning activation clears the visited flag of its
\* cell.
Return_unmark ==
    /\ stack # <<>>
    /\ Top.pc = "while"
    /\ Len(Top.adjacents) = 0
    /\ cells' = [cells EXCEPT ![Top.current.y][Top.current.x].visited = FALSE]
    /\ stack' = SubSeq(stack, 1, Len(stack) - 1)
    /\ UNCHANGED <<width, height, next, thrown, op, before, calls>>

\* Mutant of Return: the loop is left although adjacents is not empty.
Return_early ==
    /\ stack # <<>>
    /\ Top.pc = "while"
    /\ stack' = SubSeq(stack, 1, Len(stack) - 1)
    /\ UNCHANGED <<width, height, cells, next, thrown, op, before, calls>>

\* The loop test of line 188 fails: the activation returns to its caller.
Return ==
    /\ stack # <<>>
    /\ Top.pc = "while"
    /\ Len(Top.adjacents) = 0
    /\ stack' = SubSeq(stack, 1, Len(stack) - 1)
    /\ UNCHANGED <<width, height, cells, next, thrown, op, before, calls>>

\* Mutant of Resume: adjacents is not recomputed after the nested call.
Resume_stale ==
    /\ stack # <<>>
    /\ Top.pc = "wait"
    /\ stack' = SetTop([Top EXCEPT !.pc = "while"])
    /\ UNCHANGED <<width, height, cells, next, thrown, op, before, calls>>

\* Line 212, after the nested call has returned: adjacents is recomputed.
Resume ==
    /\ stack # <<>>
    /\ Top.pc = "wait"
    /\ stack' = SetTop([Top EXCEPT !.adjacents = getUnvisitedAdjacents(Top.current, cells),
                                   !.pc = "while"])
    /\ UNCHANGED <<width, height, cells, next, thrown, op, before, calls>>

\* The largest number of candidates a loop iteration chooses among.
MaxAdjacents == 4

Next ==
    \/ Reset
    \/ \E c \in StartCoords : Generate(c)
    \/ \E i \in 0 .. MaxAdjacents - 1 : Choose(i)
    \/ Recurse
    \/ Return
    \/ Resume

Spec == Init /\ [][Next]_vars

\* The random source always returns 0: Math.floor(0 * adjacents.length) = 0.
NextFixed ==
    \/ Reset
    \/ \E c \in StartCoords : Generate(c)
    \/ Choose(0)
    \/ Recurse
    \/ Return
    \/ Resume

SpecFixed == Init /\ [][NextFixed]_vars

\* A call of generate, once started, keeps running: the steps of a running
\* generate are taken as long as one is possible.
Running == (\E i \in 0 .. MaxAdjacents - 1 : Choose(i)) \/ Recurse \/ Return \/ Resume

FairSpec == Init /\ [][Next]_vars /\ WF_vars(Running)

(* ----------------- breakCellWalls called on its own -------------------- *)
\* The position the documented precondition of breakCellWalls asks of cellB:
\* the neighbour of a on the side of the wall (rows grow downwards, as in
\* draw).
NeighbourAt(a, wall) ==
    IF wall = WALL_TOP THEN Coord(a.x, a.y - 1)
    ELSE IF wall = WALL_RIGHT THEN Coord(a.x + 1, a.y)
    ELSE IF wall = WALL_BOTTOM THEN Coord(a.x, a.y + 1)
    ELSE Coord(a.x - 1, a.y)

\* breakCellWalls(cellA, cellB, wall) called from outside on two cells of the
\* grid that satisfy its precondition.
BreakWall(a, b, wall) ==
    /\ stack = <<>>
    /\ Lookup(cells, a) # <<>>
    /\ Lookup(cells, b) # <<>>
    /\ b = NeighbourAt(a, wall)
    /\ cells' = breakCellWalls(cells, a, b, wall)
    /\ op' = [name |-> "breakCellWalls", cellA |-> a, cellB |-> b, wall |-> wall]
    /\ before' = cells
    /\ thrown' = NoError
    /\ UNCHANGED <<width, height, stack, next, calls>>

InitBreak == Init /\ width * height <= MaxBreakCells

NextBreak ==
    \/ Reset
    \/ \E a \in StartCoords : \E b \in StartCoords :
          \E wall \in {WALL_TOP, WALL_RIGHT, WALL_BOTTOM, WALL_LEFT} : BreakWall(a, b, wall)

BreakSpec == InitBreak /\ [][NextBreak]_vars

(* ======================= vocabulary of the properties =================== *)
\* The positions of the width x height lattice.
Positions == {Coord(x, y) : x \in 0 .. width - 1, y \in 0 .. height - 1}

InBounds(c) == c.x \in 0 .. width - 1 /\ c.y \in 0 .. height - 1

\* Orthogonal neighbours in the lattice.
Orthogonal(a, b) ==
    \/ a.y = b.y /\ (a.x = b.x + 1 \/ b.x = a.x + 1)
    \/ a.x = b.x /\ (a.y = b.y + 1 \/ b.y = a.y + 1)

\* The wall bit of a that faces its neighbour b (y grows downwards).
Facing(a, b) ==
    IF b.x = a.x + 1 THEN 4
    ELSE IF b.x = a.x - 1 THEN 1
    ELSE IF b.y = a.y + 1 THEN 2
    ELSE 8

HasWall(cs, c, bit) == (cs[c.y][c.x].walls \div bit) % 2 = 1

\* The wall pair between the neighbours a and b is broken on both sides.
Broken(cs, a, b) == ~HasWall(cs, a, Facing(a, b)) /\ ~HasWall(cs, b, Facing(b, a))

\* The broken wall pairs, each as the set of its two positions.
BrokenPairs(cs) ==
    {{a, b} : <<a, b>> \in {q \in Positions \X Positions :
                                Orthogonal(q[1], q[2]) /\ Broken(cs, q[1], q[2])}}

\* The positions reachable from those of S over the edges of E.
RECURSIVE Closure(_, _)
Closure(S, E) ==
    LET T == S \cup {b \in Positions : \E a \in S : {a, b} \in E}
    IN  IF T = S THEN S ELSE Closure(T, E)

\* No cycle: every edge is the only connection between its two ends.
Acyclic(E) ==
    \A e \in E : \A a \in e : \A b \in e \ {a} : b \notin Closure({a}, E \ {e})

\* A grid of the constructed size.
IsGrid(cs) ==
    /\ DOMAIN cs = 0 .. height - 1
    /\ \A y \in DOMAIN cs : DOMAIN cs[y] = 0 .. width - 1

\* Every cell fully walled and unvisited.
AllFresh(cs) ==
    /\ IsGrid(cs)
    /\ \A c \in Positions : cs[c.y][c.x].walls = 15 /\ cs[c.y][c.x].visited = FALSE

AllVisited(cs) ==
    /\ IsGrid(cs)
    /\ \A c \in Positions : cs[c.y][c.x].visited = TRUE

\* The last outside call was generate(start) with an in-bounds start on a
\* freshly reset grid, and it has returned.
GeneratedAfterReset ==
    /\ op.name = "generate"
    /\ AllFresh(before)
    /\ InBounds(op.coord)
    /\ stack = <<>>

(* ================================ claims ================================ *)
\* C1: after reset() and then generate(start) with an in-bounds start has
\* returned, every cell is visited and every cell is reachable from start by
\* a path that crosses broken walls only.
C1_AllVisitedAndReachable ==
    GeneratedAfterReset =>
        /\ thrown = NoError
        /\ AllVisited(cells)
        /\ Closure({op.coord}, BrokenPairs(cells)) = Positions

C1_Witness ==
    /\ GeneratedAfterReset
    /\ width = 3 /\ height = 3
    /\ op.coord = Coord(1, 1)
    /\ AllVisited(cells)

\* C2: after reset() and then generate(start) has returned, exactly
\* width * height - 1 wall pairs are broken and the broken-wall graph has no
\* cycle.
C2_SpanningTreeEdges ==
    GeneratedAfterReset =>
        /\ Cardinality(BrokenPairs(cells)) = width * height - 1
        /\ Acyclic(BrokenPairs(cells))

C2_Witness ==
    /\ GeneratedAfterReset
    /\ width = 3 /\ height = 3
    /\ Cardinality(BrokenPairs(cells)) = 8

\* C3: in every state from reset onward, also between the steps of a running
\* generate, the two bits of a wall pair agree: a's bit facing b is set iff
\* b's bit facing a is set.
C3_WallSymmetry ==
    cells # NoCells =>
        \A a \in Positions : \A b \in Positions :
            Orthogonal(a, b) =>
                (HasWall(cells, a, Facing(a, b)) <=> HasWall(cells, b, Facing(b, a)))

C3_Witness ==
    /\ stack # <<>>
    /\ Top.pc = "call"
    /\ Len(stack) = 2
    /\ \E a \in Positions : \E b \in Positions :
          /\ Orthogonal(a, b)
          /\ b.y = a.y + 1
          /\ ~HasWall(cells, a, 2)
          /\ ~HasWall(cells, b, 8)

\* C4: whatever was called before, after reset() every cell has wall mask 15
\* and visited = false, as after the first reset.
C4_ResetIsFresh ==
    op.name = "reset" => AllFresh(cells)

C4_Witness ==
    /\ op.name = "reset"
    /\ before # NoCells
    /\ AllVisited(before)
    /\ Cardinality(BrokenPairs(before)) > 0
    /\ AllFresh(cells)

C6_FailedGenerateKeepsGrid ==
    (op.name = "generate" /\ ~InBounds(op.coord)) => cells = before

C6_Witness ==
    /\ op.name = "generate"
    /\ ~InBounds(op.coord)
    /\ thrown # NoError
    /\ AllVisited(before)
    /\ Cardinality(BrokenPairs(before)) = width * height - 1
    /\ width * height > 1
    /\ cells = before

\* C7: generate(start) with an in-bounds start on a grid whose cells are all
\* visited throws nothing, breaks no wall, changes no visited flag and has
\* nothing left to do but return.
C7_GenerateOnVisitedIsNoOp ==
    (op.name = "generate" /\ AllVisited(before) /\ InBounds(op.coord)) =>
        /\ thrown = NoError
        /\ cells = before
        /\ calls = <<>>
        /\ \/ stack = <<>>
           \/ Len(stack) = 1 /\ Top.pc = "while" /\ Top.adjacents = <<>>

C7_Witness ==
    /\ op.name = "generate"
    /\ AllVisited(before)
    /\ InBounds(op.coord)
    /\ width * height > 1
    /\ stack = <<>>
    /\ cells = before

\* C8: on a 1x1 grid, reset() then generate({x: 0, y: 0}) throws nothing,
\* marks the cell visited, leaves its mask at 15 and has nothing to do but
\* return.
C8_OneByOne ==
    (width = 1 /\ height = 1 /\ op.name = "generate" /\ AllFresh(before)
        /\ op.coord = Coord(0, 0)) =>
        /\ thrown = NoError
        /\ cells[0][0].visited = TRUE
        /\ cells[0][0].walls = 15
        /\ calls = <<>>
        /\ \/ stack = <<>>
           \/ Len(stack) = 1 /\ Top.pc = "while" /\ Top.adjacents = <<>>

C8_Witness ==
    /\ width = 1 /\ height = 1
    /\ op.name = "generate"
    /\ AllFresh(before)
    /\ op.coord = Coord(0, 0)
    /\ stack = <<>>
    /\ cells[0][0].visited

\* C9: with the random index always 0, reset() then generate({x: 0, y: 0}) on
\* a 2x2 grid breaks (0,0)-(1,0), then (1,0)-(1,1), then (1,1)-(0,1), in that
\* order and by the right, bottom and left wall of the current cell, and ends
\* with the masks (0,0) = 11, (1,0) = 12, (1,1) = 6, (0,1) = 11.
C9_FixedChoiceOrder ==
    (width = 2 /\ height = 2 /\ op.name = "generate" /\ AllFresh(before)
        /\ op.coord = Coord(0, 0)) =>
        LET from == <<Coord(0, 0), Coord(1, 0), Coord(1, 1)>>
            to == <<Coord(1, 0), Coord(1, 1), Coord(0, 1)>>
            wall == <<4, 2, 1>>
            k == Cardinality(BrokenPairs(cells))
        IN  /\ k <= 3
            /\ BrokenPairs(cells) = {{from[j], to[j]} : j \in 1 .. k}
            /\ k = 0 => calls = <<>>
            /\ k > 0 => calls = <<[cellA |-> from[k], cellB |-> to[k], wall |-> wall[k]]>>
            /\ stack = <<>> =>
                  /\ thrown = NoError
                  /\ k = 3
                  /\ cells[0][0].walls = 11
                  /\ cells[0][1].walls = 12
                  /\ cells[1][1].walls = 6
                  /\ cells[1][0].walls = 11

C9_Witness ==
    /\ width = 2 /\ height = 2
    /\ op.name = "generate"
    /\ AllFresh(before)
    /\ op.coord = Coord(0, 0)
    /\ stack = <<>>
    /\ cells[1][0].walls = 11
    /\ HasWall(cells, Coord(0, 0), 2)

\* C10: a generate(start) called with an in-bounds start on a freshly reset
\* grid eventually returns.
C10_GenerateReturns ==
    (op.name = "generate" /\ InBounds(op.coord) /\ AllFresh(before)) ~> GeneratedAfterReset

C10_Witness ==
    /\ GeneratedAfterReset
    /\ width = 3 /\ height = 3
    /\ op.coord = Coord(0, 0)
    /\ thrown = NoError
    /\ Cardinality(BrokenPairs(cells)) = 8

\* C11: width and height never change after construction and, once reset has
\* run, the grid holds exactly height rows of exactly width cells, the cell
\* at row y and column x carrying the coordinates (x, y).
C11_DimensionsFixed ==
    /\ [][width' = width /\ height' = height]_vars
    /\ [](cells # NoCells =>
            /\ DOMAIN cells = 0 .. height - 1
            /\ \A y \in 0 .. height - 1 :
                  /\ DOMAIN cells[y] = 0 .. width - 1
                  /\ \A x \in 0 .. width - 1 :
                        cells[y][x].x = x /\ cells[y][x].y = y)

C11_Witness ==
    /\ width = 3 /\ height = 2
    /\ op.name = "reset"
    /\ AllVisited(before)
    /\ DOMAIN cells = 0 .. 1
    /\ DOMAIN cells[1] = 0 .. 2
    /\ cells[1][2].x = 2 /\ cells[1][2].y = 1

\* C12: breakCellWalls(cellA, cellB, wall) with wall one of 8, 4, 2, 1 clears
\* exactly that bit on cellA and exactly the opposite bit on cellB (8 <-> 2,
\* 4 <-> 1); every other bit of the two cells, every other cell and every
\* visited flag is unchanged, and no one-sided wall is left.
C12_BreakWallEffect ==
    op.name = "breakCellWalls" =>
        LET a == op.cellA
            b == op.cellB
            opposite == IF op.wall = 8 THEN 2 ELSE IF op.wall = 2 THEN 8
                        ELSE IF op.wall = 4 THEN 1 ELSE 4
            Without(walls, bit) == IF (walls \div bit) % 2 = 1 THEN walls - bit ELSE walls
        IN  /\ IsGrid(cells)
            /\ cells[a.y][a.x] =
                  [before[a.y][a.x] EXCEPT !.walls = Without(@, op.wall)]
            /\ cells[b.y][b.x] =
                  [before[b.y][b.x] EXCEPT !.walls = Without(@, opposite)]
            /\ \A c \in Positions \ {a, b} : cells[c.y][c.x] = before[c.y][c.x]
            /\ ~HasWall(cells, a, op.wall)
            /\ ~HasWall(cells, b, opposite)
            /\ opposite = Facing(b, a)

C12_Witness ==
    /\ op.name = "breakCellWalls"
    /\ op.wall = 8
    /\ before[op.cellA.y][op.cellA.x].walls = 13
    /\ before[op.cellB.y][op.cellB.x].walls = 15
    /\ cells[op.cellA.y][op.cellA.x].walls = 5
    /\ cells[op.cellB.y][op.cellB.x].walls = 13

\* C13: after every loop iteration of generate the selected cell is an
\* unvisited orthogonal neighbour of the current cell, exactly one of the
\* four relative directions holds between them, and breakCellWalls was called
\* exactly once, on current and selected, with the wall of that direction.
C13_OneBreakInTheRightDirection ==
    (stack # <<>> /\ Top.pc = "call") =>
        LET cur == Top.current
            holds == <<next.x > cur.x, next.x < cur.x, next.y > cur.y, next.y < cur.y>>
        IN  /\ cur = Top.coord
            /\ InBounds(next)
            /\ Orthogonal(cur, next)
            /\ cells[next.y][next.x].visited = FALSE
            /\ Cardinality({d \in 1 .. 4 : holds[d]}) = 1
            /\ calls = <<[cellA |-> cur, cellB |-> next, wall |-> Facing(cur, next)]>>

C13_Witness ==
    /\ stack # <<>>
    /\ Top.pc = "call"
    /\ Len(stack) >= 3
    /\ Len(calls) = 1
    /\ calls[1].wall = 8
    /\ next.y = Top.current.y - 1

\* The cells of the active recursion path, outermost first.
Path == [i \in 1 .. Len(stack) |-> stack[i].current]

OnPath(c) == \E i \in 1 .. Len(stack) : stack[i].current = c

UnvisitedNeighbours(cs, c) ==
    {n \in Positions : Orthogonal(c, n) /\ cs[n.y][n.x].visited = FALSE}

\* C14: an activation returns only when its cell has no unvisited neighbour;
\* every visited cell that is not on the active recursion path has all its
\* neighbours visited; and only the innermost activation is in its loop, every
\* other one waits for its nested call to return.
C14_DepthFirstExhaustion ==
    /\ [](IsGrid(cells) =>
            /\ \A c \in Positions :
                  (cells[c.y][c.x].visited /\ ~OnPath(c)) => UnvisitedNeighbours(cells, c) = {}
            /\ \A i \in 1 .. Len(stack) - 1 : stack[i].pc = "wait")
    /\ [][Len(stack') < Len(stack) =>
            /\ Len(stack') = Len(stack) - 1
            /\ UnvisitedNeighbours(cells, Top.current) = {}]_vars

C14_Witness ==
    /\ IsGrid(cells)
    /\ Len(stack) >= 2
    /\ Top.pc = "while"
    /\ Top.adjacents # <<>>
    /\ \E c \in Positions : cells[c.y][c.x].visited /\ ~OnPath(c)
    /\ \E c \in Positions : ~cells[c.y][c.x].visited

\* C15: at every point of a generation the cells on the active recursion path
\* are pairwise distinct, consecutive ones are orthogonal neighbours joined by
\* a broken wall pair, and the depth is at most width * height.
C15_PathIsSimple ==
    stack # <<>> =>
        /\ \A i \in 1 .. Len(stack) : \A j \in 1 .. Len(stack) :
              Path[i] = Path[j] => i = j
        /\ \A i \in 1 .. Len(stack) - 1 :
              /\ Orthogonal(Path[i], Path[i + 1])
              /\ Broken(cells, Path[i], Path[i + 1])
        /\ Len(stack) <= width * height

C15_Witness ==
    /\ width = 3 /\ height = 3
    /\ AllFresh(before)
    /\ Len(stack) = 9
    /\ Broken(cells, Path[8], Path[9])

\* The elements of a sequence.
Elements(q) == {q[i] : i \in 1 .. Len(q)}

\* C16: for every cell, getUnvisitedAdjacents returns exactly the in-bounds
\* orthogonal neighbours whose cell has visited = false, each once and under
\* its own coordinates, and the empty sequence when there is none; the call
\* on its own (line 212) leaves every wall mask and visited flag as it was.
C16_UnvisitedNeighbours ==
    /\ [](IsGrid(cells) =>
            \A c \in Positions :
                LET r == getUnvisitedAdjacents(c, cells)
                IN  /\ Elements(r) = UnvisitedNeighbours(cells, c)
                    /\ Len(r) = Cardinality(UnvisitedNeighbours(cells, c))
                    /\ UnvisitedNeighbours(cells, c) = {} => r = <<>>)
    /\ [][(stack # <<>> /\ Top.pc = "wait" /\ Len(stack') = Len(stack)) =>
            /\ cells' = cells
            /\ Elements(stack'[Len(stack')].adjacents) = UnvisitedNeighbours(cells, Top.current)]_vars

C16_Witness ==
    /\ IsGrid(cells)
    /\ Len(stack) >= 2
    /\ Top.pc = "while"
    /\ \E c \in Positions :
          /\ getUnvisitedAdjacents(c, cells) = <<>>
          /\ Len(cells[c.y][c.x].adjacentCells) = 4
    /\ \E c \in Positions :
          /\ Len(getUnvisitedAdjacents(c, cells)) = 1
          /\ Len(cells[c.y][c.x].adjacentCells) = 3

\* C17: from reset onward, generation included, the adjacency list of every
\* cell (x, y) holds exactly its in-bounds orthogonal neighbours (left iff
\* x > 0, right iff x < width - 1, top iff y > 0, bottom iff y < height - 1),
\* between 0 and 4 of them, none twice and never the cell itself, and b is
\* listed for a iff a is listed for b.
C17_Adjacency ==
    IsGrid(cells) =>
        \A c \in Positions :
            LET adj == cells[c.y][c.x].adjacentCells
            IN  /\ Elements(adj) = {n \in Positions : Orthogonal(c, n)}
                /\ Len(adj) = Cardinality(Elements(adj))
                /\ Len(adj) \in 0 .. 4
                /\ c \notin Elements(adj)
                /\ Coord(c.x - 1, c.y) \in Elements(adj) <=> c.x > 0
                /\ Coord(c.x + 1, c.y) \in Elements(adj) <=> c.x < width - 1
                /\ Coord(c.x, c.y - 1) \in Elements(adj) <=> c.y > 0
                /\ Coord(c.x, c.y + 1) \in Elements(adj) <=> c.y < height - 1
                /\ \A b \in Positions :
                      b \in Elements(adj) <=> c \in Elements(cells[b.y][b.x].adjacentCells)

C17_Witness ==
    /\ width = 3 /\ height = 3
    /\ AllVisited(cells)
    /\ Len(cells[1][1].adjacentCells) = 4
    /\ Len(cells[0][0].adjacentCells) = 2
    /\ Len(cells[2][1].adjacentCells) = 3

\* C18: in every step that is not a reset, no visited flag goes from true to
\* false and no wall bit from cleared to set; the cells change only by the
\* marking of the entered cell at the start of an activation and by the wall
\* breaking of a loop iteration.
C18_MonotonicMutation ==
    [][(IsGrid(cells) /\ ~(stack = <<>> /\ op'.name = "reset")) =>
          /\ \A c \in Positions :
                /\ cells[c.y][c.x].visited => cells'[c.y][c.x].visited
                /\ \A bit \in {8, 4, 2, 1} :
                      ~HasWall(cells, c, bit) => ~HasWall(cells', c, bit)
          /\ cells' # cells =>
                \/ /\ Len(stack') = Len(stack) + 1
                   /\ LET e == stack'[Len(stack')].current
                      IN  cells' = [cells EXCEPT ![e.y][e.x].visited = TRUE]
                \/ /\ Len(stack') = Len(stack)
                   /\ Top.pc = "while"
                   /\ stack'[Len(stack')].pc = "call"
                   /\ \A c \in Positions :
                         cells'[c.y][c.x] = [cells[c.y][c.x] EXCEPT !.walls = cells'[c.y][c.x].walls]
                   /\ \A c \in Positions \ {Top.current, next'} : cells'[c.y][c.x] = cells[c.y][c.x]]_vars

C18_Witness ==
    /\ IsGrid(cells)
    /\ Len(stack) >= 2
    /\ Top.pc = "wait"
    /\ \E c \in Positions : cells[c.y][c.x].visited /\ ~OnPath(c) /\ cells[c.y][c.x].walls # 15
    /\ \E c \in Positions : ~cells[c.y][c.x].visited /\ cells[c.y][c.x].walls = 15

\* The number of cleared wall bits of the cell at c.
ClearedBits(cs, c) == Cardinality({bit \in {8, 4, 2, 1} : ~HasWall(cs, c, bit)})

\* C19: a wall pair is broken only between the current cell, which is
\* visited, and a neighbour that is unvisited at that moment; the next step
\* enters that neighbour; a nested activation enters only an unvisited cell,
\* which then has exactly one broken wall, and the start of a generation on a
\* fresh grid has none.
C19_BreakThenEnterOnce ==
    /\ []((stack # <<>> /\ Top.pc = "call") =>
            /\ cells[Top.current.y][Top.current.x].visited = TRUE
            /\ cells[next.y][next.x].visited = FALSE
            /\ Broken(cells, Top.current, next)
            /\ ClearedBits(cells, next) = 1)
    /\ [][(IsGrid(cells) /\ ~(stack = <<>> /\ op'.name = "reset")) =>
            /\ BrokenPairs(cells') # BrokenPairs(cells) =>
                  /\ stack # <<>>
                  /\ cells[Top.current.y][Top.current.x].visited = TRUE
                  /\ cells[next'.y][next'.x].visited = FALSE
                  /\ BrokenPairs(cells') = BrokenPairs(cells) \cup {{Top.current, next'}}
            /\ (stack # <<>> /\ Top.pc = "call") =>
                  /\ stack' = Append(SetTop([Top EXCEPT !.pc = "wait"]), stack'[Len(stack')])
                  /\ stack'[Len(stack')].current = next
                  /\ cells'[next.y][next.x].visited = TRUE
            /\ Len(stack') = Len(stack) + 1 =>
                  LET e == stack'[Len(stack')].current
                  IN  /\ stack # <<>> =>
                            /\ cells[e.y][e.x].visited = FALSE
                            /\ ClearedBits(cells, e) = 1
                      /\ (stack = <<>> /\ AllFresh(cells)) => ClearedBits(cells', e) = 0]_vars

C19_Witness ==
    /\ stack # <<>>
    /\ Top.pc = "call"
    /\ Len(stack) >= 2
    /\ cells[next.y][next.x].walls = 14
    /\ cells[next.y][next.x].visited = FALSE
    /\ ClearedBits(cells, Top.current) = 2

\* C20: the outer boundary is never opened: in every state from reset onward
\* every cell of column 0 has its left bit set, every cell of column
\* width - 1 its right bit, every cell of row 0 its top bit and every cell of
\* row height - 1 its bottom bit.
C20_BoundaryClosed ==
    IsGrid(cells) =>
        \A c \in Positions :
            /\ c.x = 0 => HasWall(cells, c, 1)
            /\ c.x = width - 1 => HasWall(cells, c, 4)
            /\ c.y = 0 => HasWall(cells, c, 8)
            /\ c.y = height - 1 => HasWall(cells, c, 2)

C20_Witness ==
    /\ width = 3 /\ height = 3
    /\ op.name = "generate"
    /\ stack = <<>>
    /\ AllVisited(cells)
    /\ cells[1][1].walls = 10
    /\ \A c \in Positions : cells[c.y][c.x].walls # 15
====
